---- MODULE Spec2Model ----
(***************************************************************************)
(* Verification model of the type-erased tuple (libcaf_core,               *)
(* caf/type_erased_tuple.hpp) and of the OpenSSL session                    *)
(* (libcaf_openssl, src/session.cpp).                                       *)
(*                                                                         *)
(* Specifications of this module:                                          *)
(*   SpecApply   - match_elements / apply on a type-erased tuple           *)
(*   SpecView    - construction, copying and destruction of views          *)
(*   SpecCopy    - copy(pos) on a view and the life of the copied values   *)
(*   SpecSerial  - save(sink) / load(source) on a view                     *)
(*   SpecSession - session::connect/try_accept/read_some/write_some        *)
(* Positions are 0-based as in the source; sequences are 1-based, so the   *)
(* element at position pos of a sequence s is s[pos + 1].                  *)
(***************************************************************************)
EXTENDS Integers, Sequences, FiniteSets, TLC

\* ------------------------------------------------------------------------
\* Bounds
\* ------------------------------------------------------------------------
MaxArity == 2      \* largest tuple arity explored
MaxParams == 2     \* largest parameter list of a callable / pattern
NVals == 2         \* element payloads range over 0 .. NVals-1

Vals == 0 .. (NVals - 1)

\* ------------------------------------------------------------------------
\* Type identity: rtti_pair = (type number, std::type_info*)
\* Builtin types carry a non-zero type number; user-defined types share
\* type number 0 and are told apart by their type_info only.
\* ------------------------------------------------------------------------
rtti_pair == { [nr |-> 1, ti |-> "int"],
               [nr |-> 0, ti |-> "A"],
               [nr |-> 0, ti |-> "B"] }

Elem == [type : rtti_pair, val : Vals]

SeqUpTo(S, n) == UNION { [1..k -> S] : k \in 0..n }

\* A tuple: its elements and the answer of the virtual shared().
Tuples == [elems : SeqUpTo(Elem, MaxArity), shared : BOOLEAN]

\* A callable: statically known parameter list, return kind, and whether
\* its body assigns to its arguments when it is handed mutable references.
Callables == [params : SeqUpTo(rtti_pair, MaxParams),
              ret : {"void", "value"},
              writes : BOOLEAN]

\* ------------------------------------------------------------------------
\* type_erased_tuple observers
\* ------------------------------------------------------------------------
size(T) == Len(T.elems)

type(T, pos) == T.elems[pos + 1].type

shared(T) == T.shared

\* matches(pos, n, p): both the type number and the type_info agree.
matches(T, pos, n, p) ==
  LET tp == type(T, pos) IN tp.nr = n /\ tp.ti = p

\* detail::match_element(x, tuple, pos)
match_element(x, T, pos) == matches(T, pos, x.nr, x.ti)

\* The loop of match_elements; log records every position whose type was
\* inspected, in inspection order.
RECURSIVE match_loop(_, _, _, _)
match_loop(T, arr, i, log) ==
  IF i < Len(arr)
    THEN IF ~ match_element(arr[i + 1], T, i)
           THEN [result |-> FALSE, inspected |-> Append(log, i)]
           ELSE match_loop(T, arr, i + 1, Append(log, i))
    ELSE [result |-> TRUE, inspected |-> log]

\* Faulty variant of match_elements: the arity test is `>` instead of `!=`.
match_elements_prefix(T, Ts) ==
  IF Len(Ts) > size(T)
    THEN [result |-> FALSE, inspected |-> << >>]
    ELSE match_loop(T, Ts, 0, << >>)

\* match_elements<Ts...>(): false at once unless sizeof...(Ts) == size()
match_elements(T, Ts) ==
  IF Len(Ts) # size(T)
    THEN [result |-> FALSE, inspected |-> << >>]
    ELSE match_loop(T, Ts, 0, << >>)

\* ------------------------------------------------------------------------
\* apply
\* ------------------------------------------------------------------------
\* Faulty variant of pseudo_tuple: the view is never marked shared.
pseudo_tuple_unshared(T) ==
  [shared_access |-> FALSE, data |-> [i \in 1..size(T) |-> i - 1]]

\* detail::pseudo_tuple<Ts...> xs{shared()}, then xs[i] = get(i) for every
\* i < size(): data[i + 1] is the address of the element at position i,
\* represented by that position.
pseudo_tuple(T) ==
  [shared_access |-> shared(T), data |-> [i \in 1..size(T) |-> i - 1]]

\* Body of the callable: its return value as a function of its arguments.
FunBody(args) == << Len(args), args >>

\* detail::apply_args(fun, get_indices(tk), xs): one call fun(get<Is>(xs)...)
\* with Is = 0 .. n-1.  Argument i is the element xs.data[i] points to; the
\* references are const when xs.shared_access is set, so a body that
\* assigns to its arguments changes the elements only otherwise.
apply_args(fun, n, xs, T) ==
  LET args == [i \in 1..n |-> T.elems[xs.data[i] + 1].val]
      touched == { xs.data[i] : i \in 1..n }
      mut == fun.writes /\ ~ xs.shared_access
  IN [args |-> args,
      value |-> FunBody(args),
      elems |-> [j \in 1..size(T) |->
                   IF mut /\ (j - 1) \in touched
                     THEN [T.elems[j] EXCEPT !.val = (@ + 1) % NVals]
                     ELSE T.elems[j]]]

NoView == [shared_access |-> FALSE, data |-> << >>]

\* Faulty variant of apply: the callable is invoked without match_elements.
apply_nomatchcheck(T, fun) ==
  LET xs == pseudo_tuple(T)
      n == IF Len(fun.params) <= size(T) THEN Len(fun.params) ELSE size(T)
      r == apply_args(fun, n, xs, T)
  IN [res |-> IF fun.ret = "void" THEN "unit" ELSE "value",
      val |-> IF fun.ret = "void" THEN << >> ELSE r.value,
      calls |-> << r.args >>,
      elems |-> r.elems,
      built |-> TRUE,
      xs |-> xs,
      inspected |-> << >>]

\* Faulty variant of apply: the void overload returns none after the call.
apply_voidnone(T, fun) ==
  LET m == match_elements(T, fun.params) IN
  IF ~ m.result
    THEN [res |-> "none", val |-> << >>, calls |-> << >>,
          elems |-> T.elems, built |-> FALSE, xs |-> NoView,
          inspected |-> m.inspected]
    ELSE LET xs == pseudo_tuple(T)
             r == apply_args(fun, Len(fun.params), xs, T)
         IN [res |-> IF fun.ret = "void" THEN "none" ELSE "value",
             val |-> IF fun.ret = "void" THEN << >> ELSE r.value,
             calls |-> << r.args >>,
             elems |-> r.elems,
             built |-> TRUE,
             xs |-> xs,
             inspected |-> m.inspected]

\* Outcome of apply: the optional returned (res/val), the invocations of fun
\* (argument lists, in call order), the tuple afterwards, whether the
\* pseudo_tuple was built and what it held, and the positions inspected by
\* match_elements.
apply(T, fun) ==
  LET m == match_elements(T, fun.params) IN
  IF ~ m.result
    THEN [res |-> "none", val |-> << >>, calls |-> << >>,
          elems |-> T.elems, built |-> FALSE, xs |-> NoView,
          inspected |-> m.inspected]
    ELSE LET xs == pseudo_tuple(T)
             r == apply_args(fun, Len(fun.params), xs, T)
         IN [res |-> IF fun.ret = "void" THEN "unit" ELSE "value",
             val |-> IF fun.ret = "void" THEN << >> ELSE r.value,
             calls |-> << r.args >>,
             elems |-> r.elems,
             built |-> TRUE,
             xs |-> xs,
             inspected |-> m.inspected]

\* ========================================================================
\* type_erased_tuple_view over caller-owned local variables
\* ========================================================================
NLocals == 2       \* caller-owned local variables
MaxViews == 2      \* view objects
MaxCopies == 1     \* values produced by copy(pos) that are kept around

Locals == 1 .. NLocals
ViewIds == 1 .. MaxViews

\* Argument lists of make_type_erased_tuple_view: a run xlo, .., xhi of the
\* caller's locals in declaration order (the empty run included).
Runs ==
  { [i \in 1..(hi - lo + 1) |-> lo + i - 1] : lo \in Locals, hi \in 0..NLocals }

\* What a read through a dangling pointer or reference yields: no payload.
Poison == NVals

\* A wrapper type_erased_value_impl<std::reference_wrapper<T>>: a reference
\* to a local.  An owning type_erased_value_impl<T>: its own payload.
RefValue(x) == [kind |-> "ref", ref |-> x, val |-> 0]

OwnedValue(c) == [kind |-> "owned", ref |-> 0, val |-> c]

DanglingValue == [kind |-> "dangling", ref |-> 0, val |-> Poison]

DeadView == [live |-> FALSE, xs |-> << >>, ptrs |-> << >>]

\* type_erased_value::get() / copy() / save(): the payload a value holds given
\* the locals ls; copy() of a reference wrapper yields an owning value.
Value_get(w, ls) ==
  IF w.kind = "owned" THEN w.val
  ELSE IF w.kind = "ref" /\ ls[w.ref].alive THEN ls[w.ref].val
  ELSE Poison

Value_copy(w, ls) == OwnedValue(Value_get(w, ls))

\* *ptrs_[pos] : the wrapper a lookup-table entry points to.
Deref(vs, ptr) ==
  IF vs[ptr.view].live /\ ptr.idx < Len(vs[ptr.view].xs)
    THEN vs[ptr.view].xs[ptr.idx + 1]
    ELSE DanglingValue

\* init(): ptrs_[P] = &std::get<P>(xs_) for P = 0 .. sizeof...(Ts)-1
init(v, n) == [i \in 1..n |-> [view |-> v, idx |-> i - 1]]

\* type_erased_tuple_view(Ts&... xs) : xs_(xs...) { init(); }
view_ctor(v, refs) ==
  [live |-> TRUE,
   xs |-> [i \in 1..Len(refs) |-> RefValue(refs[i])],
   ptrs |-> init(v, Len(refs))]

\* Faulty variant of the copy constructor: ptrs_ is copied memberwise and
\* init() is not run, so the table points into the other view.
view_copy_ctor_memberwise(v, other) ==
  [live |-> TRUE, xs |-> other.xs, ptrs |-> other.ptrs]

\* type_erased_tuple_view(const type_erased_tuple_view& other)
\*   : type_erased_tuple(), xs_(other.xs_) { init(); }
view_copy_ctor(v, other) ==
  [live |-> TRUE, xs |-> other.xs, ptrs |-> init(v, Len(other.xs))]

View_size(vs, v) == Len(vs[v].xs)

\* get(pos) == ptrs_[pos]->get()
View_get(vs, ls, v, pos) == Value_get(Deref(vs, vs[v].ptrs[pos + 1]), ls)

\* Faulty variant of copy(pos): always ptrs_[0].
View_copy_first(vs, ls, v, pos) == Value_copy(Deref(vs, vs[v].ptrs[1]), ls)

\* copy(pos) == ptrs_[pos]->copy()
View_copy(vs, ls, v, pos) == Value_copy(Deref(vs, vs[v].ptrs[pos + 1]), ls)

\* Faulty variant of save(pos, sink): always ptrs_[0].
View_save_first(vs, ls, v, pos) == Value_get(Deref(vs, vs[v].ptrs[1]), ls)

\* save(pos, sink) == ptrs_[pos]->save(sink): the payload handed to the sink.
View_save(vs, ls, v, pos) == Value_get(Deref(vs, vs[v].ptrs[pos + 1]), ls)

\* The local written by get_mutable(pos) / load(pos, source):
\* ptrs_[pos]->get_mutable() resp. ptrs_[pos]->load(source); 0 if dangling.
View_target(vs, v, pos) ==
  LET w == Deref(vs, vs[v].ptrs[pos + 1]) IN
  IF w.kind = "ref" THEN w.ref ELSE 0

Store(ls, x, c) == IF x \in Locals THEN [ls EXCEPT ![x].val = c] ELSE ls

\* type_erased_tuple::save(sink): save(i, sink) for i = 0 .. size()-1; the
\* per-position call at position failAt throws err, which ends the loop.
RECURSIVE save_loop(_, _, _, _, _, _, _)
save_loop(vs, ls, v, i, out, failAt, err) ==
  IF i < View_size(vs, v)
    THEN IF i = failAt
           THEN [status |-> "failed", err |-> err,
                 calls |-> Append(out.calls, i), sink |-> out.sink]
           ELSE save_loop(vs, ls, v, i + 1,
                          [calls |-> Append(out.calls, i),
                           sink |-> Append(out.sink, View_save(vs, ls, v, i))],
                          failAt, err)
    ELSE [status |-> "ok", err |-> "none",
          calls |-> out.calls, sink |-> out.sink]

tuple_save(vs, ls, v, failAt, err) ==
  save_loop(vs, ls, v, 0, [calls |-> << >>, sink |-> << >>], failAt, err)

\* type_erased_tuple::load(source): load(i, source) for i = 0 .. size()-1.
\* The per-position load takes the next item of the source and stores it in
\* the element; on an exhausted source it throws err, which ends the loop.
RECURSIVE load_loop(_, _, _, _, _, _)
load_loop(vs, v, i, st, src, err) ==
  IF i < View_size(vs, v)
    THEN IF st.read >= Len(src)
           THEN [status |-> "failed", err |-> err,
                 calls |-> Append(st.calls, i), read |-> st.read, ls |-> st.ls]
           ELSE load_loop(vs, v, i + 1,
                          [calls |-> Append(st.calls, i),
                           read |-> st.read + 1,
                           ls |-> Store(st.ls, View_target(vs, v, i),
                                        src[st.read + 1])],
                          src, err)
    ELSE [status |-> "ok", err |-> "none",
          calls |-> st.calls, read |-> st.read, ls |-> st.ls]

tuple_load(vs, ls, v, src, err) ==
  load_loop(vs, v, 0, [calls |-> << >>, read |-> 0, ls |-> ls], src, err)

\* ========================================================================
\* openssl::session
\* ========================================================================
MaxHandles == 3    \* SSL_CTX / SSL objects that may be allocated in one run
MaxLen == 2        \* largest buffer length handed to read_some / write_some

Null == 0          \* nullptr
Wild == -1         \* the value of a pointer member that was never assigned

\* Conditions reported by SSL_get_error after a call that returned <= 0.
SSLErrors == {"WANT_READ", "WANT_WRITE", "ZERO_RETURN", "SYSCALL", "SSL"}

\* Ways init() can end: SSL_CTX_new returned null, a later step of
\* create_ssl_context raised, SSL_new returned null, or success.
InitOutcomes == {"ctx_new_fails", "ctx_setup_fails", "ssl_new_fails", "ok"}

\* Faulty variant of handle_ssl_result: SSL_ERROR_WANT_WRITE lacks its case
\* label and falls to the default.
handle_ssl_result_no_want_write(err) ==
  CASE err = "WANT_READ" -> TRUE
    [] err \in {"ZERO_RETURN", "SYSCALL", "WANT_WRITE"} -> FALSE
    [] OTHER -> FALSE

\* session::handle_ssl_result
handle_ssl_result(err) ==
  CASE err \in {"WANT_READ", "WANT_WRITE"} -> TRUE
    [] err \in {"ZERO_RETURN", "SYSCALL"} -> FALSE
    [] OTHER -> FALSE

\* session::create_ssl_context followed by the rest of session::init, on the
\* session state st = [ctx_, ssl_, ctxMade, sslMade].  A context that was
\* created before create_ssl_context raised is referenced by nothing; the
\* previous values of ctx_ and ssl_ are overwritten.
session_init(st, outcome) ==
  CASE outcome = "ctx_new_fails" ->
         [st EXCEPT !.raised = TRUE]
    [] outcome = "ctx_setup_fails" ->
         [st EXCEPT !.ctxMade = @ + 1, !.raised = TRUE]
    [] outcome = "ssl_new_fails" ->
         [st EXCEPT !.ctxMade = @ + 1, !.ctx_ = st.ctxMade + 1,
                    !.ssl_ = Null, !.raised = TRUE]
    [] OTHER ->
         [st EXCEPT !.ctxMade = @ + 1, !.ctx_ = st.ctxMade + 1,
                    !.sslMade = @ + 1, !.ssl_ = st.sslMade + 1,
                    !.raised = FALSE]

\* bool session::read_some(size_t& result, native_socket, void*, size_t len)
\* with sslret the value of SSL_read and err the condition SSL_get_error
\* reports for it; res is the caller's variable bound to result.
read_some(res, len, sslret, err) ==
  IF len = 0
    THEN [ret |-> FALSE, result |-> res, called |-> FALSE]
    ELSE IF sslret > 0
      THEN [ret |-> TRUE, result |-> sslret, called |-> TRUE]
      ELSE [ret |-> handle_ssl_result(err), result |-> 0, called |-> TRUE]

\* bool session::write_some(size_t& result, native_socket, const void*, size_t)
write_some(res, len, sslret, err) ==
  IF len = 0
    THEN [ret |-> TRUE, result |-> res, called |-> FALSE]
    ELSE IF sslret > 0
      THEN [ret |-> TRUE, result |-> sslret, called |-> TRUE]
      ELSE [ret |-> handle_ssl_result(err), result |-> 0, called |-> TRUE]

\* The tail of connect / try_accept: ret > 0 || handle_ssl_result(ret)
handshake(sslret, err) == sslret > 0 \/ handle_ssl_result(err)

\* ========================================================================
\* State
\* ========================================================================
VARIABLES
  \* -- SpecApply --------------------------------------------------------
  tup,      \* the tuple under test
  a_op,     \* operation in progress: "idle", "apply" or "match"
  a_fun,    \* callable handed to apply
  a_pat,    \* pattern <T1..Tn> handed to match_elements
  a_pre,    \* the tuple as it was when the operation started
  a_out,    \* outcome of apply
  m_out,    \* outcome of match_elements
  \* -- SpecView, SpecCopy, SpecSerial -----------------------------------
  locals,   \* caller-owned local variables: [val, alive]
  views,    \* view objects: [live, xs (wrappers), ptrs (lookup table)]
  built,    \* per view: the locals it was built over, made by copying
  heap,     \* values returned by copy(pos), with get(pos) at that moment
  v_last,   \* record of the view operation in progress
  \* -- SpecSession ------------------------------------------------------
  sess,     \* the session object: [ctx_, ssl_, ctxMade, sslMade, raised]
  alive,    \* the session object has not been destroyed
  ctxFreed, \* per SSL_CTX handle: number of SSL_CTX_free calls on it
  sslFreed, \* per SSL handle: number of SSL_free calls on it
  wildFree, \* a free was called on an indeterminate pointer
  result,   \* the caller's size_t bound to read_some / write_some's result
  s_last    \* record of the last session operation

avars == << tup, a_op, a_fun, a_pat, a_pre, a_out, m_out >>

vvars == << locals, views, built, heap, v_last >>

svars == << sess, alive, ctxFreed, sslFreed, wildFree, result, s_last >>

vars == << avars, vvars, svars >>

NoFun == [params |-> << >>, ret |-> "void", writes |-> FALSE]

NoOut == [res |-> "none", val |-> << >>, calls |-> << >>, elems |-> << >>,
          built |-> FALSE, xs |-> NoView, inspected |-> << >>]

NoMatch == [result |-> FALSE, inspected |-> << >>]

Errors == {"e1", "e2"}

NoLast == [op |-> "idle", view |-> 0, pos |-> 0, val |-> 0, calls |-> << >>,
           status |-> "ok", err |-> "none", sink |-> << >>, src |-> << >>,
           read |-> 0, thrown |-> "none", pre |-> << >>]

NoBuilt == [refs |-> << >>, copied |-> FALSE]

Handles == 1 .. MaxHandles

NoSLast == [op |-> "idle", ret |-> TRUE, called |-> FALSE, sslret |-> 1,
            err |-> "NONE", len |-> 0, raised |-> FALSE]

\* ------------------------------------------------------------------------
\* The state after construction, one specification at a time; the parts a
\* specification does not exercise stay at a fixed value.
\* ------------------------------------------------------------------------
InitApply ==
  /\ tup \in Tuples
  /\ a_op = "idle"
  /\ a_fun = NoFun
  /\ a_pat = << >>
  /\ a_pre = tup
  /\ a_out = NoOut
  /\ m_out = NoMatch
  /\ locals = [x \in Locals |-> [val |-> 0, alive |-> TRUE]]
  /\ views = [v \in ViewIds |-> DeadView]
  /\ built = [v \in ViewIds |-> NoBuilt]
  /\ heap = << >>
  /\ v_last = NoLast
  /\ sess = [ctx_ |-> Null, ssl_ |-> Null, ctxMade |-> 0, sslMade |-> 0,
             raised |-> FALSE]
  /\ alive = TRUE
  /\ ctxFreed = [h \in Handles |-> 0]
  /\ sslFreed = [h \in Handles |-> 0]
  /\ wildFree = FALSE
  /\ result = 0
  /\ s_last = NoSLast

\* No view exists yet; the caller's locals hold arbitrary values.
InitView ==
  /\ tup = [elems |-> << >>, shared |-> FALSE]
  /\ a_op = "idle"
  /\ a_fun = NoFun
  /\ a_pat = << >>
  /\ a_pre = tup
  /\ a_out = NoOut
  /\ m_out = NoMatch
  /\ locals \in [Locals -> [val : Vals, alive : {TRUE}]]
  /\ views = [v \in ViewIds |-> DeadView]
  /\ built = [v \in ViewIds |-> NoBuilt]
  /\ heap = << >>
  /\ v_last = NoLast
  /\ sess = [ctx_ |-> Null, ssl_ |-> Null, ctxMade |-> 0, sslMade |-> 0,
             raised |-> FALSE]
  /\ alive = TRUE
  /\ ctxFreed = [h \in Handles |-> 0]
  /\ sslFreed = [h \in Handles |-> 0]
  /\ wildFree = FALSE
  /\ result = 0
  /\ s_last = NoSLast

\* session::session(actor_system&) initialises sys_ only: ctx_ and ssl_
\* start with an indeterminate value.
InitSession ==
  /\ tup = [elems |-> << >>, shared |-> FALSE]
  /\ a_op = "idle"
  /\ a_fun = NoFun
  /\ a_pat = << >>
  /\ a_pre = tup
  /\ a_out = NoOut
  /\ m_out = NoMatch
  /\ locals = [x \in Locals |-> [val |-> 0, alive |-> TRUE]]
  /\ views = [v \in ViewIds |-> DeadView]
  /\ built = [v \in ViewIds |-> NoBuilt]
  /\ heap = << >>
  /\ v_last = NoLast
  /\ \E c \in {Null, Wild}, l \in {Null, Wild} :
       sess = [ctx_ |-> c, ssl_ |-> l, ctxMade |-> 0, sslMade |-> 0,
               raised |-> FALSE]
  /\ alive = TRUE
  /\ ctxFreed = [h \in Handles |-> 0]
  /\ sslFreed = [h \in Handles |-> 0]
  /\ wildFree = FALSE
  /\ result \in 0..MaxLen
  /\ s_last = NoSLast

\* ------------------------------------------------------------------------
\* Tuple operations
\* ------------------------------------------------------------------------
\* T.apply(fun)
Apply(fun) ==
  /\ a_op = "idle"
  /\ a_op' = "apply"
  /\ a_fun' = fun
  /\ a_pre' = tup
  /\ a_out' = apply(tup, fun)
  /\ tup' = [tup EXCEPT !.elems = a_out'.elems]
  /\ UNCHANGED << a_pat, m_out >>

\* T.match_elements<Ts...>()
MatchElements(Ts) ==
  /\ a_op = "idle"
  /\ a_op' = "match"
  /\ a_pat' = Ts
  /\ a_pre' = tup
  /\ m_out' = match_elements(tup, Ts)
  /\ UNCHANGED << tup, a_fun, a_out >>

\* The caller is done with the outcome of the operation.
ApplyReturn ==
  /\ a_op # "idle"
  /\ a_op' = "idle"
  /\ a_fun' = NoFun
  /\ a_pat' = << >>
  /\ a_pre' = tup
  /\ a_out' = NoOut
  /\ m_out' = NoMatch
  /\ UNCHANGED tup

ApplyStep ==
  /\ \E fun \in Callables : Apply(fun)
  /\ UNCHANGED << vvars, svars >>

MatchStep ==
  /\ \E Ts \in SeqUpTo(rtti_pair, MaxParams) : MatchElements(Ts)
  /\ UNCHANGED << vvars, svars >>

ApplyReturnStep ==
  /\ ApplyReturn
  /\ UNCHANGED << vvars, svars >>

ANext ==
  \/ ApplyStep
  \/ MatchStep
  \/ ApplyReturnStep

SpecApply == InitApply /\ [][ANext]_vars

\* ------------------------------------------------------------------------
\* Properties of match_elements and apply
\* ------------------------------------------------------------------------
\* The shape of T is <Ts>: same arity and the same type at every position.
ShapeMatches(T, Ts) ==
  /\ Len(Ts) = Len(T.elems)
  /\ \A i \in 1..Len(Ts) : T.elems[i].type = Ts[i]

\* Values of the elements of T in position order.
ElemVals(T) == [i \in 1..Len(T.elems) |-> T.elems[i].val]

\* Positions 0 .. k-1 in ascending order.
Ascending(k) == [i \in 1..k |-> i - 1]

\* Number of positions inspected by an in-order scan that stops at the
\* first position whose type differs from the pattern.
ScanLength(T, Ts) ==
  IF \E i \in 1..Len(Ts) : T.elems[i].type # Ts[i]
    THEN CHOOSE i \in 1..Len(Ts) :
           /\ T.elems[i].type # Ts[i]
           /\ \A j \in 1..(i - 1) : T.elems[j].type = Ts[j]
    ELSE Len(Ts)

\* C1: apply on a tuple whose shape does not match the callable's parameter
\* list returns none, never invokes the callable, builds no typed view over
\* the elements and leaves the tuple unchanged.
C1_NoMatchNoEffect ==
  (a_op = "apply" /\ ~ ShapeMatches(a_pre, a_fun.params)) =>
     /\ a_out.res = "none"
     /\ a_out.calls = << >>
     /\ ~ a_out.built
     /\ tup = a_pre

C1_Witness ==
  /\ a_op = "apply"
  /\ ~ ShapeMatches(a_pre, a_fun.params)
  /\ Len(a_fun.params) = Len(a_pre.elems)
  /\ Len(a_pre.elems) = 2
  /\ a_fun.writes
  /\ ~ a_pre.shared

\* C2: apply on a tuple whose shape matches invokes the callable exactly
\* once with the elements in position order; a value-returning callable
\* yields a present optional holding its return value, a void callable
\* yields unit; none is returned iff the callable was not invoked.
C2_MatchInvokesOnce ==
  (a_op = "apply") =>
     /\ ShapeMatches(a_pre, a_fun.params) =>
          /\ a_out.calls = << ElemVals(a_pre) >>
          /\ a_fun.ret = "value" =>
               (a_out.res = "value" /\ a_out.val = FunBody(ElemVals(a_pre)))
          /\ a_fun.ret = "void" => a_out.res = "unit"
     /\ (a_out.res = "none") <=> (a_out.calls = << >>)
     /\ (a_out.res = "unit") => a_fun.ret = "void"
     /\ (a_out.res = "value") => a_fun.ret = "value"

C2_Witness ==
  /\ a_op = "apply"
  /\ ShapeMatches(a_pre, a_fun.params)
  /\ Len(a_pre.elems) = 2
  /\ a_pre.elems[1].val # a_pre.elems[2].val
  /\ a_fun.ret = "void"
  /\ a_out.res = "unit"

\* C3: match_elements<Ts...> is true iff the arity equals n and every
\* position has the pattern's type at that position; on an arity mismatch
\* no element is inspected, otherwise positions are inspected in ascending
\* order up to and including the first mismatch.
C3_MatchElements ==
  (a_op = "match") =>
     /\ m_out.result <=> ShapeMatches(a_pre, a_pat)
     /\ Len(a_pat) # Len(a_pre.elems) => m_out.inspected = << >>
     /\ Len(a_pat) = Len(a_pre.elems) =>
          m_out.inspected = Ascending(ScanLength(a_pre, a_pat))

C3_Witness ==
  /\ a_op = "match"
  /\ Len(a_pat) = 2
  /\ Len(a_pre.elems) = 2
  /\ a_pre.elems[1].type # a_pat[1]
  /\ a_pre.elems[1].type.nr = a_pat[1].nr
  /\ a_pre.elems[2].type = a_pat[2]
  /\ m_out.inspected = << 0 >>
  /\ ~ m_out.result

\* C4: when apply invokes the callable, the view's shared flag is the
\* tuple's shared(); on a shared tuple the invocation changes no element,
\* and elements change only when shared() is false.
C4_SharedIsConst ==
  (a_op = "apply" /\ a_out.calls # << >>) =>
     /\ a_out.xs.shared_access = a_pre.shared
     /\ a_pre.shared => tup = a_pre
     /\ tup # a_pre => ~ a_pre.shared

C4_Witness ==
  /\ a_op = "apply"
  /\ a_out.calls # << >>
  /\ a_pre.shared
  /\ a_fun.writes
  /\ Len(a_pre.elems) = 2
  /\ a_out.xs.shared_access

\* ------------------------------------------------------------------------
\* View operations
\* ------------------------------------------------------------------------
Referenced(x) ==
  \E v \in ViewIds : views[v].live /\
     \E i \in 1..Len(views[v].xs) : views[v].xs[i].ref = x

\* make_type_erased_tuple_view(xs...) into the free slot v
Construct(v, refs) ==
  /\ v_last.op = "idle"
  /\ ~ views[v].live
  /\ \A i \in 1..Len(refs) : locals[refs[i]].alive
  /\ views' = [views EXCEPT ![v] = view_ctor(v, refs)]
  /\ built' = [built EXCEPT ![v] = [refs |-> refs, copied |-> FALSE]]
  /\ UNCHANGED << locals, heap, v_last >>

\* type_erased_tuple_view v(o)
CopyConstruct(v, o) ==
  /\ v_last.op = "idle"
  /\ ~ views[v].live
  /\ views[o].live
  /\ views' = [views EXCEPT ![v] = view_copy_ctor(v, views[o])]
  /\ built' = [built EXCEPT ![v] = [refs |-> built[o].refs, copied |-> TRUE]]
  /\ UNCHANGED << locals, heap, v_last >>

\* ~type_erased_tuple_view
DestroyView(v) ==
  /\ v_last.op = "idle"
  /\ views[v].live
  /\ views' = [views EXCEPT ![v] = DeadView]
  /\ built' = [built EXCEPT ![v] = NoBuilt]
  /\ UNCHANGED << locals, heap, v_last >>

\* The caller assigns to one of its locals.
WriteLocal(x, c) ==
  /\ v_last.op = "idle"
  /\ locals[x].alive
  /\ locals' = [locals EXCEPT ![x].val = c]
  /\ UNCHANGED << views, built, heap, v_last >>

\* The local goes out of scope; no view over it is alive any more.
DestroyLocal(x) ==
  /\ v_last.op = "idle"
  /\ locals[x].alive
  /\ ~ Referenced(x)
  /\ locals' = [locals EXCEPT ![x].alive = FALSE]
  /\ UNCHANGED << views, built, heap, v_last >>

\* *reinterpret_cast<T*>(v.get_mutable(pos)) = c
GetMutable(v, pos, c) ==
  /\ v_last.op = "idle"
  /\ views[v].live
  /\ pos < View_size(views, v)
  /\ locals' = Store(locals, View_target(views, v, pos), c)
  /\ v_last' = [NoLast EXCEPT !.op = "get_mutable", !.view = v,
                               !.pos = pos, !.val = c]
  /\ UNCHANGED << views, built, heap >>

\* v.load(pos, source) with c the next item of the source
LoadPos(v, pos, c) ==
  /\ v_last.op = "idle"
  /\ views[v].live
  /\ pos < View_size(views, v)
  /\ locals' = Store(locals, View_target(views, v, pos), c)
  /\ UNCHANGED << views, built, heap, v_last >>

\* v.copy(pos); the caller keeps the result.  Next to the value the heap
\* records what get(pos) returned, and which local held what, at that moment.
Copy(v, pos) ==
  /\ v_last.op = "idle"
  /\ views[v].live
  /\ pos < View_size(views, v)
  /\ Len(heap) < MaxCopies
  /\ heap' = Append(heap, [value |-> View_copy(views, locals, v, pos),
                           at |-> View_get(views, locals, v, pos),
                           from |-> built[v].refs[pos + 1],
                           ext |-> locals[built[v].refs[pos + 1]].val,
                           pos |-> pos])
  /\ UNCHANGED << locals, views, built, v_last >>

\* v.save(sink) into an empty sink; the per-position save at failAt throws.
Save(v, failAt, err) ==
  /\ v_last.op = "idle"
  /\ views[v].live
  /\ LET r == tuple_save(views, locals, v, failAt, err) IN
       v_last' = [NoLast EXCEPT !.op = "save", !.view = v, !.pos = failAt,
                                !.calls = r.calls, !.status = r.status,
                                !.err = r.err, !.sink = r.sink,
                                !.thrown = err, !.pre = locals]
  /\ UNCHANGED << locals, views, built, heap >>

\* v.load(source) from a source holding src; reading past its end throws.
Load(v, src, err) ==
  /\ v_last.op = "idle"
  /\ views[v].live
  /\ LET r == tuple_load(views, locals, v, src, err) IN
       /\ locals' = r.ls
       /\ v_last' = [NoLast EXCEPT !.op = "load", !.view = v,
                                   !.calls = r.calls, !.status = r.status,
                                   !.err = r.err, !.src = src,
                                   !.read = r.read, !.thrown = err,
                                   !.pre = locals]
  /\ UNCHANGED << views, built, heap >>

\* The caller is done with the outcome of the operation.
ViewReturn ==
  /\ v_last.op # "idle"
  /\ v_last' = NoLast
  /\ UNCHANGED << locals, views, built, heap >>

Positions == 0 .. (NLocals - 1)

ConstructStep ==
  /\ \E v \in ViewIds, refs \in Runs : Construct(v, refs)
  /\ UNCHANGED << avars, svars >>

CopyConstructStep ==
  /\ \E v \in ViewIds, o \in ViewIds : CopyConstruct(v, o)
  /\ UNCHANGED << avars, svars >>

DestroyViewStep ==
  /\ \E v \in ViewIds : DestroyView(v)
  /\ UNCHANGED << avars, svars >>

WriteLocalStep ==
  /\ \E x \in Locals, c \in Vals : WriteLocal(x, c)
  /\ UNCHANGED << avars, svars >>

GetMutableStep ==
  /\ \E v \in ViewIds, pos \in Positions, c \in Vals : GetMutable(v, pos, c)
  /\ UNCHANGED << avars, svars >>

ViewReturnStep ==
  /\ ViewReturn
  /\ UNCHANGED << avars, svars >>

VNext ==
  \/ ConstructStep
  \/ CopyConstructStep
  \/ DestroyViewStep
  \/ WriteLocalStep
  \/ GetMutableStep
  \/ ViewReturnStep

\* Views: construction, copy construction, destruction, writes.
SpecView == InitView /\ [][VNext]_vars

\* One view object and the values copied out of it.
ConstructOne ==
  /\ \E refs \in Runs : Construct(1, refs)
  /\ UNCHANGED << avars, svars >>

DestroyOne ==
  /\ DestroyView(1)
  /\ UNCHANGED << avars, svars >>

DestroyLocalStep ==
  /\ \E x \in Locals : DestroyLocal(x)
  /\ UNCHANGED << avars, svars >>

GetMutableOne ==
  /\ \E pos \in Positions, c \in Vals : GetMutable(1, pos, c)
  /\ UNCHANGED << avars, svars >>

LoadPosOne ==
  /\ \E pos \in Positions, c \in Vals : LoadPos(1, pos, c)
  /\ UNCHANGED << avars, svars >>

CopyOne ==
  /\ \E pos \in Positions : Copy(1, pos)
  /\ UNCHANGED << avars, svars >>

CNext ==
  \/ ConstructOne
  \/ DestroyOne
  \/ WriteLocalStep
  \/ DestroyLocalStep
  \/ GetMutableOne
  \/ LoadPosOne
  \/ CopyOne
  \/ ViewReturnStep

SpecCopy == InitView /\ [][CNext]_vars

\* One view object, saved to sinks and loaded from sources.
SaveOne ==
  /\ \E failAt \in -1..(NLocals - 1), err \in Errors : Save(1, failAt, err)
  /\ UNCHANGED << avars, svars >>

LoadOne ==
  /\ \E src \in SeqUpTo(Vals, NLocals), err \in Errors : Load(1, src, err)
  /\ UNCHANGED << avars, svars >>

RNext ==
  \/ ConstructOne
  \/ DestroyOne
  \/ WriteLocalStep
  \/ SaveOne
  \/ LoadOne
  \/ ViewReturnStep

SpecSerial == InitView /\ [][RNext]_vars

\* ------------------------------------------------------------------------
\* Properties of views
\* ------------------------------------------------------------------------
\* C5: every value returned by copy(p) is an owning value whose contents are
\* what get(p) returned (and what the referenced local held) when it was
\* copied, whatever happened since to the local and the view: writes to the
\* local (directly, through get_mutable or load) and their destruction.
C5_CopyIsIndependent ==
  \A i \in 1..Len(heap) :
     /\ heap[i].value.kind = "owned"
     /\ heap[i].at = heap[i].ext
     /\ Value_get(heap[i].value, locals) = heap[i].at

C5_Witness ==
  /\ heap # << >>
  /\ \A v \in ViewIds : ~ views[v].live
  /\ heap[1].pos = 1
  /\ ~ locals[heap[1].from].alive
  /\ locals[heap[1].from].val # heap[1].at
  /\ Value_get(heap[1].value, locals) = heap[1].at

\* C6: in every live view the lookup-table entry P points to the view's own
\* P-th wrapper, and that wrapper references the local the view (or the view
\* it was copied from) was built over; so every position of a live view is
\* readable, and a write through get_mutable(P) of one view is what get
\* returns in every live view for every position over the same local.
C6_ViewInvariant ==
  /\ \A v \in ViewIds : views[v].live =>
       /\ Len(views[v].ptrs) = Len(views[v].xs)
       /\ Len(views[v].xs) = Len(built[v].refs)
       /\ \A P \in 0..(Len(views[v].xs) - 1) :
            /\ views[v].ptrs[P + 1] = [view |-> v, idx |-> P]
            /\ views[v].xs[P + 1] = RefValue(built[v].refs[P + 1])
            /\ View_get(views, locals, v, P) = locals[built[v].refs[P + 1]].val
  /\ v_last.op = "get_mutable" =>
       \A w \in ViewIds : views[w].live =>
          \A Q \in 0..(Len(built[w].refs) - 1) :
             built[w].refs[Q + 1] = built[v_last.view].refs[v_last.pos + 1]
               => View_get(views, locals, w, Q) = v_last.val

C6_Witness ==
  /\ v_last.op = "get_mutable"
  /\ v_last.view = 2
  /\ v_last.pos = 1
  /\ built[2].copied
  /\ views[1].live
  /\ built[1].copied
  /\ built[1].refs = built[2].refs
  /\ View_get(views, locals, 1, 1) = v_last.val
  /\ v_last.val = 1

\* C7: save(sink) calls save(i, sink) for i = 0, 1, .. in ascending order,
\* each position once, and the sink receives exactly the elements of the
\* positions saved, in order; load(source) does the same with load(i, ..),
\* consuming one item per position loaded and nothing more.  A failing
\* position is the last one called, and its error is what the caller gets.
C7_SaveLoadInOrder ==
  /\ v_last.op = "save" =>
       LET n == Len(built[v_last.view].refs)
           failed == v_last.pos \in 0..(n - 1)
           k == IF failed THEN v_last.pos ELSE n
       IN /\ v_last.calls = Ascending(IF failed THEN k + 1 ELSE n)
          /\ v_last.sink =
               [i \in 1..k |-> locals[built[v_last.view].refs[i]].val]
          /\ failed => (v_last.status = "failed" /\ v_last.err = v_last.thrown)
          /\ ~ failed => (v_last.status = "ok" /\ v_last.err = "none")
          /\ locals = v_last.pre
  /\ v_last.op = "load" =>
       LET refs == built[v_last.view].refs
           n == Len(refs)
           failed == Len(v_last.src) < n
           k == IF failed THEN Len(v_last.src) ELSE n
       IN /\ v_last.calls = Ascending(IF failed THEN k + 1 ELSE n)
          /\ v_last.read = k
          /\ \A i \in 1..k : locals[refs[i]].val = v_last.src[i]
          /\ \A x \in Locals :
               (\A i \in 1..k : refs[i] # x) => locals[x] = v_last.pre[x]
          /\ failed => (v_last.status = "failed" /\ v_last.err = v_last.thrown)
          /\ ~ failed => (v_last.status = "ok" /\ v_last.err = "none")

C7_Witness ==
  /\ v_last.op = "save"
  /\ Len(built[v_last.view].refs) = 2
  /\ v_last.pos = 1
  /\ v_last.status = "failed"
  /\ v_last.err = "e2"
  /\ v_last.calls = << 0, 1 >>
  /\ Len(v_last.sink) = 1

\* ------------------------------------------------------------------------
\* Session operations
\* ------------------------------------------------------------------------
Free(counts, h) == IF h \in Handles THEN [counts EXCEPT ![h] = @ + 1] ELSE counts

\* session::connect(fd) and session::try_accept(fd): init(), then the
\* handshake call; an error raised by init() leaves the function at once.
Handshake(op, outcome, sslret, err) ==
  /\ alive
  /\ sess.ctxMade < MaxHandles
  /\ sess' = session_init(sess, outcome)
  /\ s_last' = IF sess'.raised
                 THEN [NoSLast EXCEPT !.op = op, !.raised = TRUE,
                                      !.ret = FALSE]
                 ELSE [NoSLast EXCEPT !.op = op, !.called = TRUE,
                                      !.sslret = sslret,
                                      !.err = IF sslret > 0 THEN "NONE" ELSE err,
                                      !.ret = handshake(sslret, err)]
  /\ UNCHANGED << alive, ctxFreed, sslFreed, wildFree, result >>

Connect(outcome, sslret, err) == Handshake("connect", outcome, sslret, err)

TryAccept(outcome, sslret, err) == Handshake("accept", outcome, sslret, err)

\* session::read_some; SSL_read needs the SSL object of a set-up session.
ReadSome(len, sslret, err) ==
  /\ alive
  /\ len = 0 \/ sess.ssl_ \in Handles
  /\ sslret <= len
  /\ LET r == read_some(result, len, sslret, err) IN
       /\ result' = r.result
       /\ s_last' = [NoSLast EXCEPT !.op = "read", !.len = len,
                                    !.called = r.called, !.ret = r.ret,
                                    !.sslret = IF r.called THEN sslret ELSE 1,
                                    !.err = IF r.called /\ sslret <= 0
                                              THEN err ELSE "NONE"]
  /\ UNCHANGED << sess, alive, ctxFreed, sslFreed, wildFree >>

\* session::write_some
WriteSome(len, sslret, err) ==
  /\ alive
  /\ len = 0 \/ sess.ssl_ \in Handles
  /\ sslret <= len
  /\ LET r == write_some(result, len, sslret, err) IN
       /\ result' = r.result
       /\ s_last' = [NoSLast EXCEPT !.op = "write", !.len = len,
                                    !.called = r.called, !.ret = r.ret,
                                    !.sslret = IF r.called THEN sslret ELSE 1,
                                    !.err = IF r.called /\ sslret <= 0
                                              THEN err ELSE "NONE"]
  /\ UNCHANGED << sess, alive, ctxFreed, sslFreed, wildFree >>

\* session::~session: SSL_free(ssl_); SSL_CTX_free(ctx_);
Destroy ==
  /\ alive
  /\ alive' = FALSE
  /\ sslFreed' = Free(sslFreed, sess.ssl_)
  /\ ctxFreed' = Free(ctxFreed, sess.ctx_)
  /\ wildFree' = (wildFree \/ sess.ssl_ = Wild \/ sess.ctx_ = Wild)
  /\ s_last' = [NoSLast EXCEPT !.op = "destroy"]
  /\ UNCHANGED << sess, result >>

ConnectStep ==
  /\ \E o \in InitOutcomes, r \in -1..1, e \in SSLErrors : Connect(o, r, e)
  /\ UNCHANGED << avars, vvars >>

TryAcceptStep ==
  /\ \E o \in InitOutcomes, r \in -1..1, e \in SSLErrors : TryAccept(o, r, e)
  /\ UNCHANGED << avars, vvars >>

ReadSomeStep ==
  /\ \E len \in 0..MaxLen, r \in -1..MaxLen, e \in SSLErrors :
       ReadSome(len, r, e)
  /\ UNCHANGED << avars, vvars >>

WriteSomeStep ==
  /\ \E len \in 0..MaxLen, r \in -1..MaxLen, e \in SSLErrors :
       WriteSome(len, r, e)
  /\ UNCHANGED << avars, vvars >>

DestroyStep ==
  /\ Destroy
  /\ UNCHANGED << avars, vvars >>

SNext ==
  \/ ConnectStep
  \/ TryAcceptStep
  \/ ReadSomeStep
  \/ WriteSomeStep
  \/ DestroyStep

SpecSession == InitSession /\ [][SNext]_vars

\* ------------------------------------------------------------------------
\* Properties of the session
\* ------------------------------------------------------------------------
Retryable == {"WANT_READ", "WANT_WRITE"}

Closed == {"ZERO_RETURN", "SYSCALL"}

\* C8: when the SSL call of connect, try_accept, read_some or write_some made
\* no progress, a want-read / want-write condition gives true (retry later)
\* with zero bytes transferred, and a zero-return / syscall condition gives
\* false (connection closed).
C8_RetryVersusClosed ==
  (s_last.op \in {"connect", "accept", "read", "write"}
     /\ s_last.called /\ s_last.sslret <= 0) =>
     /\ s_last.err \in Retryable =>
          /\ s_last.ret = TRUE
          /\ s_last.op \in {"read", "write"} => result = 0
     /\ s_last.err \in Closed => s_last.ret = FALSE

C8_Witness ==
  /\ s_last.op = "write"
  /\ s_last.called
  /\ s_last.sslret = -1
  /\ s_last.err = "WANT_WRITE"
  /\ s_last.ret = TRUE
  /\ result = 0

\* C9: read_some and write_some return false only after an SSL call failed
\* with a non-retryable condition; with len = 0 they make no SSL call and
\* return true.
C9_FalseOnlyAfterFailedCall ==
  (s_last.op \in {"read", "write"}) =>
     /\ s_last.ret = FALSE =>
          (s_last.called /\ s_last.sslret <= 0 /\ s_last.err \notin Retryable)
     /\ s_last.len = 0 => (~ s_last.called /\ s_last.ret = TRUE)

\* C10: once the session is destroyed, every SSL_CTX and every SSL object
\* that was created has been freed exactly once; none is ever freed twice.
C10_EveryHandleFreedOnce ==
  /\ \A h \in Handles : ctxFreed[h] <= 1 /\ sslFreed[h] <= 1
  /\ ~ alive =>
       /\ \A h \in 1..sess.ctxMade : ctxFreed[h] = 1
       /\ \A h \in 1..sess.sslMade : sslFreed[h] = 1

====
